---- MODULE Spec2Model ----
(***************************************************************************)
(* The snarcos chain extension of the runtime                              *)
(* (bin/runtime/src/chain_extension/mod.rs): a contract calls              *)
(* SnarcosChainExtension::call(func_id, env); func_id 41 is routed to      *)
(* snarcos_store_key, which checks the declared input length, charges      *)
(* weight, reads the input once, decodes StoreKeyArgs (SCALE) and hands     *)
(* (identifier, key) to pallet_snarcos::bare_store_key.                     *)
(*                                                                         *)
(* One step of the model is one whole call.  The state between calls is    *)
(* the pallet's key storage, the weight meter of the environment and a     *)
(* record of what the last call did.                                       *)
(***************************************************************************)
EXTENDS Integers, Sequences, FiniteSets

(***************************************************************************)
(* Program constants.                                                      *)
(***************************************************************************)
SNARCOS_STORE_KEY_FUNC_ID == 41

SNARCOS_STORE_KEY_OK == 10000
SNARCOS_STORE_KEY_TOO_LONG_KEY == 10001
SNARCOS_STORE_KEY_IN_USE == 10002
SNARCOS_STORE_KEY_ERROR_UNKNOWN == 10003

\* size_of::<VerificationKeyIdentifier>(): the identifier is [u8; 4].
IdWidth == 4

(***************************************************************************)
(* Bounds of the model.                                                    *)
(***************************************************************************)
\* MaximumVerificationKeyLength::get(), scaled down.
MaxKeyLen == 2

\* The weight the meter holds in the initial state.
GasLimit == 5

(***************************************************************************)
(* External cost function: WeightInfo::store_key(key_length), a base cost  *)
(* plus a cost per byte.                                                   *)
(***************************************************************************)
WeightBase == 1

WeightPerByte == 1

WeightInfo_store_key(l) == WeightBase + WeightPerByte * l

\* Variant: the weight ignores the length.
store_key_weight_flat(key_length) == WeightInfo_store_key(0)

store_key_weight(key_length) == WeightInfo_store_key(key_length)

(***************************************************************************)
(* u32 arithmetic.                                                         *)
(***************************************************************************)
\* Variant: the subtraction wraps, to a value beyond every length.
wrapping_sub(a, b) == IF a >= b THEN a - b ELSE 2147483647 - (b - a)

saturating_sub(a, b) == IF a >= b THEN a - b ELSE 0

(***************************************************************************)
(* SCALE decoding (parity-scale-codec), as derived for StoreKeyArgs:       *)
(* identifier: [u8; 4] is IdWidth raw bytes; key: Vec<u8> is a             *)
(* Compact<u32> length followed by that many bytes.  `decode` leaves       *)
(* trailing bytes unread.                                                  *)
(***************************************************************************)
Drop(s, n) == SubSeq(s, n + 1, Len(s))

Min(a, b) == IF a <= b THEN a ELSE b

RECURSIVE LittleEndian(_)
LittleEndian(bytes) ==
    IF bytes = <<>> THEN 0 ELSE bytes[1] + 256 * LittleEndian(Tail(bytes))

\* A u32 is held as its four little-endian bytes (u32::to_le_bytes), since
\* TLC's integers end at 2^31 - 1: the u32 v is
\* v[1] + 256 * v[2] + 65536 * v[3] + 16777216 * v[4].
U32_le_bytes(n) ==
    <<n % 256, (n \div 256) % 256, (n \div 65536) % 256, n \div 16777216>>

\* The u32 v is greater than the length n (n < 2^31).
U32_exceeds(v, n) == v[4] >= 128 \/ LittleEndian(v) > n

DecodeFail == [ok |-> FALSE, value |-> U32_le_bytes(0), rest |-> <<>>]

\* impl Decode for Compact<u32>; value is the u32 as little-endian bytes.
CompactU32_decode(input) ==
    IF Len(input) = 0 THEN DecodeFail
    ELSE LET prefix == input[1]
             mode == prefix % 4
         IN CASE mode = 0 ->
                   [ok |-> TRUE, value |-> U32_le_bytes(prefix \div 4),
                    rest |-> Drop(input, 1)]
              [] mode = 1 ->
                   IF Len(input) < 2 THEN DecodeFail
                   ELSE LET x == LittleEndian(SubSeq(input, 1, 2)) \div 4
                        IN IF x > 63 /\ x <= 16383
                           THEN [ok |-> TRUE, value |-> U32_le_bytes(x),
                                 rest |-> Drop(input, 2)]
                           ELSE DecodeFail
              [] mode = 2 ->
                   IF Len(input) < 4 THEN DecodeFail
                   ELSE LET x == (input[1] \div 4)
                                 + 64 * LittleEndian(SubSeq(input, 2, 4))
                        IN IF x > 16383
                           THEN [ok |-> TRUE, value |-> U32_le_bytes(x),
                                 rest |-> Drop(input, 4)]
                           ELSE DecodeFail
              [] OTHER ->
                   IF prefix \div 4 # 0 \/ Len(input) < 5 THEN DecodeFail
                   ELSE LET x == SubSeq(input, 2, 5)
                        IN IF x[4] >= 64
                           THEN [ok |-> TRUE, value |-> x, rest |-> Drop(input, 5)]
                           ELSE DecodeFail

NoKey == [ok |-> FALSE, value |-> <<>>, rest |-> <<>>]

\* impl Decode for Vec<u8>
VecU8_decode(input) ==
    LET len == CompactU32_decode(input)
    IN IF ~len.ok THEN NoKey
       ELSE IF U32_exceeds(len.value, Len(len.rest)) THEN NoKey
       ELSE [ok |-> TRUE,
             value |-> SubSeq(len.rest, 1, LittleEndian(len.value)),
             rest |-> Drop(len.rest, LittleEndian(len.value))]

\* impl Decode for [u8; N]
ByteArray_decode(input, n) ==
    IF Len(input) < n THEN NoKey
    ELSE [ok |-> TRUE, value |-> SubSeq(input, 1, n), rest |-> Drop(input, n)]

NoArgs == [ok |-> FALSE, identifier |-> <<>>, key |-> <<>>]

\* Variant: the key is everything after the identifier, without a length.
StoreKeyArgs_decode_raw(bytes) ==
    IF Len(bytes) < IdWidth THEN NoArgs
    ELSE [ok |-> TRUE, identifier |-> SubSeq(bytes, 1, IdWidth),
          key |-> Drop(bytes, IdWidth)]

\* #[derive(Decode)] struct StoreKeyArgs { identifier, key }
StoreKeyArgs_decode(bytes) ==
    LET identifier == ByteArray_decode(bytes, IdWidth)
    IN IF ~identifier.ok THEN NoArgs
       ELSE LET key == VecU8_decode(identifier.rest)
            IN IF ~key.ok THEN NoArgs
               ELSE [ok |-> TRUE, identifier |-> identifier.value, key |-> key.value]

(***************************************************************************)
(* The call environment (pallet_contracts::chain_extension::Environment).  *)
(* env.input is the contract's input buffer, in_len its declared length;   *)
(* env.mem_ok says whether the sandbox memory holding it can be read;      *)
(* env.consume_on_oog says whether a refused charge leaves the meter       *)
(* empty or untouched (either is the host's choice); env.pallet_fault says *)
(* whether the pallet fails with an error other than the two enumerated.   *)
(***************************************************************************)
in_len(env) == Len(env.input)

\* Environment::read(max_len): one read of at most max_len bytes.
read(env, max_len) ==
    IF env.mem_ok
    THEN [ok |-> TRUE, bytes |-> SubSeq(env.input, 1, Min(max_len, in_len(env)))]
    ELSE [ok |-> FALSE, bytes |-> <<>>]

\* Variant: a charge the meter cannot cover empties it and goes through.
charge_weight_unchecked(env, gas, amount) ==
    [ok |-> TRUE, gas_left |-> IF amount <= gas THEN gas - amount ELSE 0]

\* Environment::charge_weight(amount) on a meter holding `gas`.
charge_weight(env, gas, amount) ==
    IF amount <= gas
    THEN [ok |-> TRUE, gas_left |-> gas - amount]
    ELSE [ok |-> FALSE, gas_left |-> IF env.consume_on_oog THEN 0 ELSE gas]

(***************************************************************************)
(* The storage collaborator, pallet_snarcos::Pallet::bare_store_key, on    *)
(* the pallet's VerificationKeys map `keys` with the pallet's own limit.   *)
(***************************************************************************)
Insert(keys, identifier, key) ==
    [i \in DOMAIN keys \cup {identifier} |->
        IF i = identifier THEN key ELSE keys[i]]

bare_store_key(keys, limit, fault, identifier, key) ==
    IF fault THEN [outcome |-> "Other", keys |-> keys]
    ELSE IF Len(key) > limit
    THEN [outcome |-> "VerificationKeyTooLong", keys |-> keys]
    ELSE IF identifier \in DOMAIN keys
    THEN [outcome |-> "IdentifierAlreadyInUse", keys |-> keys]
    ELSE [outcome |-> "Ok", keys |-> Insert(keys, identifier, key)]

(***************************************************************************)
(* Results of a call: Ok(RetVal::Converging(code)) or Err(DispatchError).  *)
(***************************************************************************)
Converging(code) == [kind |-> "Converging", code |-> code, msg |-> ""]

Err(msg) == [kind |-> "Err", code |-> 0, msg |-> msg]

\* Variant: an identifier in use is reported as an unknown error.
ReturnStatus_no_in_use(outcome) ==
    CASE outcome = "Ok" -> SNARCOS_STORE_KEY_OK
      [] outcome = "VerificationKeyTooLong" -> SNARCOS_STORE_KEY_TOO_LONG_KEY
      [] OTHER -> SNARCOS_STORE_KEY_ERROR_UNKNOWN

\* Variant: the pallet's own length error falls into the catch-all arm.
ReturnStatus_no_too_long(outcome) ==
    CASE outcome = "Ok" -> SNARCOS_STORE_KEY_OK
      [] outcome = "IdentifierAlreadyInUse" -> SNARCOS_STORE_KEY_IN_USE
      [] OTHER -> SNARCOS_STORE_KEY_ERROR_UNKNOWN

\* Variant: an identifier in use is reported as stored.
ReturnStatus_in_use_ok(outcome) ==
    CASE outcome = "Ok" -> SNARCOS_STORE_KEY_OK
      [] outcome = "VerificationKeyTooLong" -> SNARCOS_STORE_KEY_TOO_LONG_KEY
      [] outcome = "IdentifierAlreadyInUse" -> SNARCOS_STORE_KEY_OK
      [] OTHER -> SNARCOS_STORE_KEY_ERROR_UNKNOWN

\* The match on the collaborator's outcome.
ReturnStatus(outcome) ==
    CASE outcome = "Ok" -> SNARCOS_STORE_KEY_OK
      [] outcome = "VerificationKeyTooLong" -> SNARCOS_STORE_KEY_TOO_LONG_KEY
      [] outcome = "IdentifierAlreadyInUse" -> SNARCOS_STORE_KEY_IN_USE
      [] OTHER -> SNARCOS_STORE_KEY_ERROR_UNKNOWN

\* Variant: the guard bounds the whole input, identifier included.
TooLong_counts_identifier(key_length) == key_length > MaxKeyLen + IdWidth

\* Variant: the guard lets one more byte through.
TooLong_off_by_one(key_length) == key_length > MaxKeyLen + 1

\* The bounds guard.
TooLong(key_length) == key_length > MaxKeyLen

\* key_length = in_len - size_of identifier, saturating.
KeyLength(env) == saturating_sub(in_len(env), IdWidth)

\* Variant: a failed decode is reported as a result code.
DecodeError_as_code == Converging(SNARCOS_STORE_KEY_ERROR_UNKNOWN)

\* map_err of a failed decode.
DecodeError == Err("Failed to decode arguments")

\* What a call leaves behind: its result, the meter, the pallet's keys and
\* the record of what it did (trace: the environment and collaborator calls
\* it made, in order).
Outcome(result, gas, keys, key_length, weight, args, outcome, trace) ==
    [result |-> result, gas_left |-> gas, keys |-> keys,
     key_length |-> key_length, weight |-> weight, args |-> args,
     outcome |-> outcome, trace |-> trace]

\* Variant: the weight is given back when the call does not store the key.
snarcos_store_key_refunding(env, gas, keys, limit) ==
    LET key_length == KeyLength(env)
        weight == store_key_weight(key_length)
        charged == charge_weight(env, gas, weight)
        bytes == read(env, in_len(env))
        args == StoreKeyArgs_decode(bytes.bytes)
        stored == bare_store_key(keys, limit, env.pallet_fault,
                                 args.identifier, args.key)
    IN IF TooLong(key_length)
       THEN Outcome(Converging(SNARCOS_STORE_KEY_TOO_LONG_KEY), gas, keys,
                    key_length, 0, NoArgs, "none", <<"in_len">>)
       ELSE IF ~charged.ok
       THEN Outcome(Err("OutOfGas"), charged.gas_left, keys,
                    key_length, weight, NoArgs, "none",
                    <<"in_len", "charge_weight">>)
       ELSE IF ~bytes.ok
       THEN Outcome(Err("OutOfBounds"), gas, keys,
                    key_length, weight, NoArgs, "none",
                    <<"in_len", "charge_weight", "in_len", "read">>)
       ELSE IF ~args.ok
       THEN Outcome(DecodeError, gas, keys,
                    key_length, weight, NoArgs, "none",
                    <<"in_len", "charge_weight", "in_len", "read", "decode">>)
       ELSE Outcome(Converging(ReturnStatus(stored.outcome)),
                    IF stored.outcome = "Ok" THEN charged.gas_left ELSE gas,
                    stored.keys,
                    key_length, weight, args, stored.outcome,
                    <<"in_len", "charge_weight", "in_len", "read", "decode",
                      "bare_store_key">>)

\* Variant: the input is read and decoded first and the weight charged after.
snarcos_store_key_charge_late(env, gas, keys, limit) ==
    LET key_length == KeyLength(env)
        weight == store_key_weight(key_length)
        charged == charge_weight(env, gas, weight)
        bytes == read(env, in_len(env))
        args == StoreKeyArgs_decode(bytes.bytes)
        stored == bare_store_key(keys, limit, env.pallet_fault,
                                 args.identifier, args.key)
    IN IF TooLong(key_length)
       THEN Outcome(Converging(SNARCOS_STORE_KEY_TOO_LONG_KEY), gas, keys,
                    key_length, 0, NoArgs, "none", <<"in_len">>)
       ELSE IF ~bytes.ok
       THEN Outcome(Err("OutOfBounds"), gas, keys,
                    key_length, weight, NoArgs, "none",
                    <<"in_len", "in_len", "read">>)
       ELSE IF ~args.ok
       THEN Outcome(DecodeError, gas, keys,
                    key_length, weight, NoArgs, "none",
                    <<"in_len", "in_len", "read", "decode">>)
       ELSE IF ~charged.ok
       THEN Outcome(Err("OutOfGas"), charged.gas_left, keys,
                    key_length, weight, NoArgs, "none",
                    <<"in_len", "in_len", "read", "decode", "charge_weight">>)
       ELSE Outcome(Converging(ReturnStatus(stored.outcome)),
                    charged.gas_left, stored.keys,
                    key_length, weight, args, stored.outcome,
                    <<"in_len", "in_len", "read", "decode", "charge_weight",
                      "bare_store_key">>)

snarcos_store_key(env, gas, keys, limit) ==
    LET key_length == KeyLength(env)
        weight == store_key_weight(key_length)
        charged == charge_weight(env, gas, weight)
        bytes == read(env, in_len(env))
        args == StoreKeyArgs_decode(bytes.bytes)
        stored == bare_store_key(keys, limit, env.pallet_fault,
                                 args.identifier, args.key)
    IN IF TooLong(key_length)
       THEN Outcome(Converging(SNARCOS_STORE_KEY_TOO_LONG_KEY), gas, keys,
                    key_length, 0, NoArgs, "none", <<"in_len">>)
       ELSE IF ~charged.ok
       THEN Outcome(Err("OutOfGas"), charged.gas_left, keys,
                    key_length, weight, NoArgs, "none",
                    <<"in_len", "charge_weight">>)
       ELSE IF ~bytes.ok
       THEN Outcome(Err("OutOfBounds"), charged.gas_left, keys,
                    key_length, weight, NoArgs, "none",
                    <<"in_len", "charge_weight", "in_len", "read">>)
       ELSE IF ~args.ok
       THEN Outcome(DecodeError, charged.gas_left, keys,
                    key_length, weight, NoArgs, "none",
                    <<"in_len", "charge_weight", "in_len", "read", "decode">>)
       ELSE Outcome(Converging(ReturnStatus(stored.outcome)),
                    charged.gas_left, stored.keys,
                    key_length, weight, args, stored.outcome,
                    <<"in_len", "charge_weight", "in_len", "read", "decode",
                      "bare_store_key">>)

\* Variant: an unregistered function identifier converges with code 0.
call_default_converges(func_id, env, gas, keys, limit) ==
    IF func_id = SNARCOS_STORE_KEY_FUNC_ID
    THEN snarcos_store_key(env, gas, keys, limit)
    ELSE Outcome(Converging(0), gas, keys, 0, 0, NoArgs, "none", <<>>)

\* Variant: every function identifier is routed to the store-key handler.
call_any_id(func_id, env, gas, keys, limit) ==
    snarcos_store_key(env, gas, keys, limit)

\* ChainExtension::call
call(func_id, env, gas, keys, limit) ==
    IF func_id = SNARCOS_STORE_KEY_FUNC_ID
    THEN snarcos_store_key(env, gas, keys, limit)
    ELSE Outcome(Err("Unimplemented func_id"), gas, keys, 0, 0, NoArgs,
                 "none", <<>>)

(***************************************************************************)
(* Inputs of the model.                                                    *)
(***************************************************************************)
\* Compact<u32>::encode of a length n < 2^31: the mode in the two low bits
\* of the first byte, the value above them (little-endian), or, from 2^30
\* on, the byte 3 followed by the four bytes of n.
CompactU32_encode(n) ==
    IF n < 64 THEN <<4 * n>>
    ELSE IF n < 16384 THEN <<4 * (n % 64) + 1, n \div 64>>
    ELSE IF n < 1073741824
    THEN <<4 * (n % 64) + 2, (n \div 64) % 256, (n \div 16384) % 256,
           n \div 4194304>>
    ELSE <<3>> \o U32_le_bytes(n)

\* The wire form a contract produces for (identifier, key).
Encode(identifier, key) == identifier \o CompactU32_encode(Len(key)) \o key

Ramp(m) == [i \in 1..m |-> 100 + i]

Identifiers == {<<10, 11, 12, 13>>, <<20, 21, 22, 23>>}

Payloads ==
    {CompactU32_encode(n) \o Ramp(m) : n \in 0..(MaxKeyLen + 1), m \in 0..(MaxKeyLen + 1)}
    \cup {<<>>, <<1>>, <<1, 0>>, <<1, 1>>, <<2>>, <<3>>}

Inputs ==
    {identifier \o p : identifier \in Identifiers, p \in Payloads}
    \cup {SubSeq(<<10, 11, 12, 13>>, 1, k) : k \in 0..(IdWidth - 1)}

\* The host behaves normally, or deviates in the one way a call can meet.
NormalHost == [mem_ok |-> TRUE, consume_on_oog |-> TRUE, pallet_fault |-> FALSE]

Hosts ==
    {NormalHost,
     [NormalHost EXCEPT !.mem_ok = FALSE],
     [NormalHost EXCEPT !.consume_on_oog = FALSE],
     [NormalHost EXCEPT !.pallet_fault = TRUE]}

Env(input, host) ==
    [input |-> input, mem_ok |-> host.mem_ok,
     consume_on_oog |-> host.consume_on_oog, pallet_fault |-> host.pallet_fault]

\* Function identifiers other than the registered one.
OtherFuncIds == {0, 40, 42}

\* The inputs tried with unregistered functions, which never look at them.
OtherInputs == {<<>>, Encode(<<10, 11, 12, 13>>, Ramp(1))}

(***************************************************************************)
(* State.                                                                  *)
(***************************************************************************)
VARIABLES
    keys,          \* pallet_snarcos VerificationKeys: identifier -> key
    pallet_limit,  \* the pallet's own maximum key length (configuration)
    gas_left,      \* weight left in the environment's meter
    last           \* the last call: its arguments and what it did

vars == <<keys, pallet_limit, gas_left, last>>

NoCall ==
    [func_id |-> 0, input |-> <<>>, id_was_free |-> FALSE,
     done |-> Outcome([kind |-> "None", code |-> 0, msg |-> ""],
                      GasLimit, <<>>, 0, 0, NoArgs, "none", <<>>)]

Init ==
    /\ keys = <<>>
    /\ pallet_limit \in {0, MaxKeyLen}
    /\ gas_left = GasLimit
    /\ last = NoCall

\* One call of the chain extension, start to end.
Call(func_id, env) ==
    LET done == call(func_id, env, gas_left, keys, pallet_limit)
    IN /\ keys' = done.keys
       /\ gas_left' = done.gas_left
       /\ last' = [func_id |-> func_id, input |-> env.input,
                   id_was_free |-> done.args.ok /\ done.args.identifier \notin DOMAIN keys,
                   done |-> done]
       /\ UNCHANGED pallet_limit

\* A contract calls the registered function: any input, any host behaviour.
StoreKey ==
    \E input \in Inputs, host \in Hosts :
        Call(SNARCOS_STORE_KEY_FUNC_ID, Env(input, host))

\* A contract calls a function that is not registered.
Unregistered ==
    \E func_id \in OtherFuncIds, input \in OtherInputs :
        Call(func_id, Env(input, NormalHost))

Next == StoreKey \/ Unregistered

Spec == Init /\ [][Next]_vars

(***************************************************************************)
(* Vocabulary of the properties, stated on a call record c (a value of     *)
(* `last`) without use of the handler's own operators.                     *)
(***************************************************************************)
Called(c) == c.done.result.kind # "None"

StoreKeyCall(c) == Called(c) /\ c.func_id = 41

\* max(0, in_len - identifier_width)
VariableLength(c) == IF Len(c.input) > IdWidth THEN Len(c.input) - IdWidth ELSE 0

Did(c, event) == \E i \in DOMAIN c.done.trace : c.done.trace[i] = event

LastEvent(c) ==
    IF c.done.trace = <<>> THEN "none" ELSE c.done.trace[Len(c.done.trace)]

ConvergedWith(c, code) == c.done.result.kind = "Converging" /\ c.done.result.code = code

HardFailed(c) == c.done.result.kind = "Err"

\* The input begins with the wire form of (identifier, key).
Carries(input, identifier, key) ==
    LET wire == Encode(identifier, key)
    IN Len(input) >= Len(wire) /\ SubSeq(input, 1, Len(wire)) = wire

\* The input is exactly the wire form of an identifier and a key of length n.
CarriesKeyOfLength(input, n) ==
    /\ Len(input) = IdWidth + Len(CompactU32_encode(n)) + n
    /\ Carries(input, SubSeq(input, 1, IdWidth), SubSeq(input, Len(input) - n + 1, Len(input)))

\* The input begins with the wire form of some identifier and key.
WellFormed(input) ==
    /\ Len(input) >= IdWidth
    /\ \E n \in 0..Len(input) :
          LET c == CompactU32_encode(n)
          IN /\ Len(input) >= IdWidth + Len(c) + n
             /\ SubSeq(input, IdWidth + 1, IdWidth + Len(c)) = c

(***************************************************************************)
(* C1: a store-key call whose variable_length exceeds the maximum key      *)
(* length converges with KEY_TOO_LONG (10001); it charges no weight, does  *)
(* not read the input and does not invoke bare_store_key.                  *)
(***************************************************************************)
C1_Step ==
    (StoreKeyCall(last') /\ VariableLength(last') > MaxKeyLen)
    => /\ ConvergedWith(last', 10001)
       /\ gas_left' = gas_left
       /\ keys' = keys
       /\ ~Did(last', "charge_weight")
       /\ ~Did(last', "read")
       /\ ~Did(last', "bare_store_key")

C1_TooLongRejectedUncharged == [][C1_Step]_vars

C1_Witness ==
    /\ StoreKeyCall(last)
    /\ VariableLength(last) > MaxKeyLen
    /\ ConvergedWith(last, 10001)
    /\ gas_left = GasLimit

(***************************************************************************)
(* C2: a store-key call whose buffer passes the bounds guard and whose     *)
(* decoding is attempted and fails ends in a hard failure, does not invoke *)
(* bare_store_key, and leaves the meter lowered by the weight of its       *)
(* variable_length.  A malformed buffer that passes the guard never        *)
(* converges, whether or not the call gets as far as decoding it.          *)
(***************************************************************************)
C2_Step ==
    (StoreKeyCall(last') /\ VariableLength(last') <= MaxKeyLen /\ ~WellFormed(last'.input))
    => /\ HardFailed(last')
       /\ ~Did(last', "bare_store_key")
       /\ keys' = keys
       /\ Did(last', "decode")
            => /\ last'.done.result.msg = "Failed to decode arguments"
               /\ gas_left' = gas_left - WeightInfo_store_key(VariableLength(last'))
               /\ gas_left' < gas_left

C2_DecodeFailureIsHardAndCharged == [][C2_Step]_vars

C2_Witness ==
    /\ StoreKeyCall(last)
    /\ VariableLength(last) <= MaxKeyLen
    /\ ~WellFormed(last.input)
    /\ LastEvent(last) = "decode"
    /\ HardFailed(last)
    /\ gas_left < GasLimit

(***************************************************************************)
(* C3: a call with a function identifier other than 41 ends in a hard      *)
(* failure; it charges nothing, does not query the input length, does not  *)
(* read the buffer and does not invoke bare_store_key.                     *)
(***************************************************************************)
C3_Step ==
    (Called(last') /\ last'.func_id # 41)
    => /\ HardFailed(last')
       /\ last'.done.result.msg = "Unimplemented func_id"
       /\ last'.done.trace = <<>>
       /\ gas_left' = gas_left
       /\ keys' = keys

C3_UnregisteredHardFails == [][C3_Step]_vars

C3_Witness ==
    /\ Called(last)
    /\ last.func_id # 41
    /\ HardFailed(last)
    /\ Len(last.input) > IdWidth

(***************************************************************************)
(* C4: of two successive valid store-key calls with the same identifier,   *)
(* the first made while the identifier is not registered, the first        *)
(* converges with OK (10000) and the second with IDENTIFIER_IN_USE         *)
(* (10002).  A call is valid when its arguments were decoded and handed to *)
(* the pallet, its key is within the pallet's limit and the pallet met no  *)
(* error outside the two it enumerates.                                    *)
(***************************************************************************)
ValidCall(c) ==
    /\ StoreKeyCall(c)
    /\ Did(c, "bare_store_key")
    /\ Len(c.done.args.key) <= pallet_limit
    /\ c.done.outcome # "Other"

C4_Step ==
    (/\ ValidCall(last) /\ last.id_was_free
     /\ ValidCall(last')
     /\ last'.done.args.identifier = last.done.args.identifier)
    => /\ ConvergedWith(last, 10000)
       /\ ConvergedWith(last', 10002)

C4_SecondStoreInUse == [][C4_Step]_vars

C4_Witness ==
    /\ ValidCall(last)
    /\ ~last.id_was_free
    /\ ConvergedWith(last, 10002)
    /\ last.done.args.identifier \in DOMAIN keys

(***************************************************************************)
(* C5: a store-key call carrying a key of length exactly the maximum key   *)
(* length passes the bounds guard (it is charged, not answered with        *)
(* KEY_TOO_LONG by the guard); one carrying a key one byte longer is       *)
(* answered with KEY_TOO_LONG.                                             *)
(***************************************************************************)
C5_BoundaryInclusiveInKey ==
    StoreKeyCall(last)
    => /\ CarriesKeyOfLength(last.input, MaxKeyLen)
            => Did(last, "charge_weight") /\ ~ConvergedWith(last, 10001)
       /\ CarriesKeyOfLength(last.input, MaxKeyLen + 1)
            => ConvergedWith(last, 10001)

(***************************************************************************)
(* C6: a store-key call whose declared length is below the identifier      *)
(* width has variable_length 0: the guard does not reject it, and the      *)
(* weight it is charged is the cost of length 0.                           *)
(***************************************************************************)
C6_Step ==
    (StoreKeyCall(last') /\ Len(last'.input) < IdWidth)
    => /\ last'.done.key_length = 0
       /\ ~ConvergedWith(last', 10001)
       /\ Did(last', "charge_weight")
       /\ last'.done.weight = WeightInfo_store_key(0)
       /\ Did(last', "read") => gas_left' = gas_left - WeightInfo_store_key(0)

C6_ShortInputHasLengthZero == [][C6_Step]_vars

C6_Witness ==
    /\ StoreKeyCall(last)
    /\ Len(last.input) < IdWidth
    /\ Did(last, "read")
    /\ gas_left = GasLimit - WeightInfo_store_key(0)

(***************************************************************************)
(* C7: once the arguments are decoded, the result is a result code fixed   *)
(* by the pallet's outcome: stored -> 10000, key over the pallet's own     *)
(* limit -> 10001, identifier registered -> 10002, any other error ->      *)
(* 10003; no outcome of the pallet is a hard failure.                      *)
(***************************************************************************)
C7_OutcomeDeterminesCode ==
    (StoreKeyCall(last) /\ Did(last, "decode") /\ WellFormed(last.input))
    => /\ Did(last, "bare_store_key")
       /\ last.done.result.kind = "Converging"
       /\ last.done.outcome = "Ok" <=> last.done.result.code = 10000
       /\ last.done.outcome = "VerificationKeyTooLong" <=> last.done.result.code = 10001
       /\ last.done.outcome = "IdentifierAlreadyInUse" <=> last.done.result.code = 10002
       /\ last.done.outcome \notin {"Ok", "VerificationKeyTooLong", "IdentifierAlreadyInUse"}
            <=> last.done.result.code = 10003

C7_Witness ==
    /\ StoreKeyCall(last)
    /\ Did(last, "bare_store_key")
    /\ VariableLength(last) <= MaxKeyLen
    /\ Len(last.done.args.key) > pallet_limit
    /\ last.done.outcome = "VerificationKeyTooLong"
    /\ ConvergedWith(last, 10001)

(***************************************************************************)
(* C8 as stated: a call ends in a hard failure exactly when its function   *)
(* identifier is unregistered or its buffer failed to decode; every other  *)
(* call with the registered identifier converges.                          *)
(***************************************************************************)
DecodeFailed(c) == Did(c, "decode") /\ ~WellFormed(c.input)

C8_HardFailureOnlyIdOrDecode ==
    Called(last)
    => /\ HardFailed(last) <=> (last.func_id # 41 \/ DecodeFailed(last))
       /\ ~HardFailed(last) => last.done.result.kind = "Converging"

(***************************************************************************)
(* C8 amended: a call ends in a hard failure exactly when its function     *)
(* identifier is unregistered, or the charge of its weight is refused, or  *)
(* the read of its buffer fails, or its buffer fails to decode; every      *)
(* other call with the registered identifier converges.                    *)
(***************************************************************************)
C8_Step ==
    LET guarded == VariableLength(last') <= MaxKeyLen
        refused == guarded /\ WeightInfo_store_key(VariableLength(last')) > gas_left
        readFailed == LastEvent(last') = "read"
    IN Called(last')
       => /\ HardFailed(last')
               <=> \/ last'.func_id # 41
                   \/ refused
                   \/ readFailed
                   \/ DecodeFailed(last')
          /\ ~HardFailed(last') => last'.done.result.kind = "Converging"
          /\ readFailed => guarded /\ ~refused /\ last'.func_id = 41

C8_HardFailureCauses == [][C8_Step]_vars

C8_Witness ==
    /\ StoreKeyCall(last)
    /\ WellFormed(last.input)
    /\ LastEvent(last) = "charge_weight"
    /\ HardFailed(last)

(***************************************************************************)
(* C9 as stated: the identifier handed to the pallet is the first          *)
(* identifier_width bytes of the buffer and the key is all the remaining   *)
(* bytes, so its length is variable_length.                                *)
(***************************************************************************)
C9_KeyIsRestOfBuffer ==
    (StoreKeyCall(last) /\ Did(last, "bare_store_key"))
    => /\ last.done.args.identifier = SubSeq(last.input, 1, IdWidth)
       /\ last.done.args.key = Drop(last.input, IdWidth)
       /\ Len(last.done.args.key) = VariableLength(last)

(***************************************************************************)
(* C9 amended: the identifier handed to the pallet is the first            *)
(* identifier_width bytes of the buffer; after it the buffer holds the     *)
(* compact encoding of a length n, and the key is exactly the n bytes      *)
(* after that prefix; bytes after the key are ignored.  The key is         *)
(* therefore shorter than variable_length.                                 *)
(***************************************************************************)
C9_KeyFollowsLengthPrefix ==
    (StoreKeyCall(last) /\ Did(last, "bare_store_key"))
    => /\ last.done.args.identifier = SubSeq(last.input, 1, IdWidth)
       /\ Carries(last.input, last.done.args.identifier, last.done.args.key)
       /\ Len(last.done.args.key) < VariableLength(last)

C9_Witness ==
    /\ StoreKeyCall(last)
    /\ Did(last, "bare_store_key")
    /\ Len(last.done.args.key) = 1
    /\ Len(last.input) = IdWidth + 2

(***************************************************************************)
(* C10: the weight a store-key call charges after the bounds guard is the  *)
(* cost function applied to variable_length, and of two such calls the one *)
(* with the smaller variable_length is charged no more than the other.     *)
(***************************************************************************)
PastGuard(c) == StoreKeyCall(c) /\ VariableLength(c) <= MaxKeyLen

C10_Step ==
    /\ PastGuard(last')
         => /\ last'.done.weight = WeightInfo_store_key(VariableLength(last'))
            /\ Did(last', "read") => gas_left - gas_left' = last'.done.weight
    /\ (PastGuard(last) /\ PastGuard(last'))
         => /\ VariableLength(last) < VariableLength(last')
                 => last.done.weight <= last'.done.weight
            /\ VariableLength(last) > VariableLength(last')
                 => last.done.weight >= last'.done.weight

C10_WeightOfVariableLength == [][C10_Step]_vars

C10_Witness ==
    /\ PastGuard(last)
    /\ Did(last, "bare_store_key")
    /\ VariableLength(last) = MaxKeyLen
    /\ last.done.weight = WeightInfo_store_key(MaxKeyLen)
    /\ last.done.weight > WeightInfo_store_key(Len(last.done.args.key))

(***************************************************************************)
(* C11: charges are never rolled back.  No call raises the meter, and a    *)
(* store-key call whose charge went through leaves the meter lower by      *)
(* exactly the weight of its variable_length, whether it then stores the   *)
(* key, hard-fails or converges with a code other than OK.                 *)
(***************************************************************************)
\* The charge went through: the call went on to read its input.
ChargeApplied(c) == StoreKeyCall(c) /\ Did(c, "read")

C11_Step ==
    /\ gas_left' <= gas_left
    /\ ChargeApplied(last')
         => /\ gas_left' = gas_left - WeightInfo_store_key(VariableLength(last'))
            /\ gas_left' < gas_left
    /\ (Called(last') /\ ~ChargeApplied(last'))
         => gas_left' \in {gas_left, 0}

C11_ChargesNeverRolledBack == [][C11_Step]_vars

C11_Witness ==
    /\ ChargeApplied(last)
    /\ HardFailed(last)
    /\ LastEvent(last) = "decode"
    /\ gas_left = GasLimit - WeightInfo_store_key(VariableLength(last))

(***************************************************************************)
(* C12: within a store-key call the steps come in one order: the declared  *)
(* length is queried, the guard decides, the weight is charged, the buffer *)
(* is read, the bytes are decoded, bare_store_key is invoked, the code is  *)
(* returned.  The charge precedes the read and the decode; the buffer is   *)
(* read at most once and whole (the decoder's verdict and the key are      *)
(* those of all in_len bytes); bare_store_key is invoked at most once and  *)
(* only after a successful decode.  The length is queried a second time,   *)
(* as the argument of the read.                                            *)
(***************************************************************************)
Positions(c, event) == {i \in DOMAIN c.done.trace : c.done.trace[i] = event}

AtMostOnce(c, event) == Cardinality(Positions(c, event)) <= 1

Before(c, a, b) == \A i \in Positions(c, a), j \in Positions(c, b) : i < j

C12_FixedOrder ==
    StoreKeyCall(last)
    => /\ last.done.trace # <<>> /\ last.done.trace[1] = "in_len"
       /\ Did(last, "charge_weight") <=> VariableLength(last) <= MaxKeyLen
       /\ \A e \in {"charge_weight", "read", "decode", "bare_store_key"} :
             AtMostOnce(last, e)
       /\ Before(last, "in_len", "read")
       /\ Did(last, "read")
            => Did(last, "charge_weight") /\ Before(last, "charge_weight", "read")
       /\ Did(last, "decode")
            => /\ Did(last, "read") /\ Before(last, "read", "decode")
               /\ Before(last, "charge_weight", "decode")
               /\ Did(last, "bare_store_key") <=> WellFormed(last.input)
       /\ Did(last, "bare_store_key")
            => /\ Did(last, "decode") /\ Before(last, "decode", "bare_store_key")
               /\ LastEvent(last) = "bare_store_key"
               /\ Carries(last.input, last.done.args.identifier, last.done.args.key)
       /\ last.done.result.kind = "Converging"
            => \/ LastEvent(last) = "bare_store_key"
               \/ ConvergedWith(last, 10001) /\ last.done.trace = <<"in_len">>

C12_Witness ==
    /\ StoreKeyCall(last)
    /\ Len(last.done.trace) = 6
    /\ Did(last, "bare_store_key")
    /\ ConvergedWith(last, 10000)

(***************************************************************************)
(* C13: every call ends, and ends in exactly one of two ways: it converges *)
(* with one of the codes 10000, 10001, 10002, 10003, or it hard-fails.     *)
(* This holds of the last call made and of every call that can be made     *)
(* next, whatever its input and the host's behaviour.                      *)
(***************************************************************************)
Terminal(result) ==
    \/ result.kind = "Converging" /\ result.code \in {10000, 10001, 10002, 10003}
    \/ result.kind = "Err"

C13_TwoTerminalOutcomes ==
    /\ Called(last) => Terminal(last.done.result)
    /\ \A input \in Inputs, host \in Hosts :
          Terminal(call(41, Env(input, host), gas_left, keys, pallet_limit).result)
    /\ \A func_id \in OtherFuncIds, input \in OtherInputs :
          Terminal(call(func_id, Env(input, NormalHost), gas_left, keys, pallet_limit).result)
    /\ ENABLED StoreKey
    /\ ENABLED Unregistered

C13_Witness ==
    /\ StoreKeyCall(last)
    /\ ConvergedWith(last, 10003)
    /\ last.done.outcome = "Other"

(***************************************************************************)
(* C14: when the environment refuses the charge of a store-key call that   *)
(* passed the bounds guard, the call ends in a hard failure right there:   *)
(* the buffer is not read, nothing is decoded, bare_store_key is not       *)
(* invoked and the key store is unchanged.                                 *)
(***************************************************************************)
C14_Step ==
    (/\ PastGuard(last')
     /\ WeightInfo_store_key(VariableLength(last')) > gas_left)
    => /\ HardFailed(last')
       /\ last'.done.trace = <<"in_len", "charge_weight">>
       /\ ~Did(last', "read")
       /\ ~Did(last', "decode")
       /\ ~Did(last', "bare_store_key")
       /\ ~last'.done.args.ok
       /\ keys' = keys

C14_RefusedChargeHardFails == [][C14_Step]_vars

C14_Witness ==
    /\ PastGuard(last)
    /\ WellFormed(last.input)
    /\ HardFailed(last)
    /\ LastEvent(last) = "charge_weight"
    /\ keys # <<>>
    /\ last.done.args.identifier \notin DOMAIN keys

(***************************************************************************)
(* C15: a key handed to bare_store_key is never longer than the            *)
(* variable_length of its call, hence never longer than the maximum key    *)
(* length, whatever the buffer holds.                                      *)
(***************************************************************************)
C15_HandedKeyWithinMaximum ==
    (StoreKeyCall(last) /\ Did(last, "bare_store_key"))
    => /\ Len(last.done.args.key) <= VariableLength(last)
       /\ Len(last.done.args.key) <= MaxKeyLen

C15_Witness ==
    /\ StoreKeyCall(last)
    /\ Did(last, "bare_store_key")
    /\ VariableLength(last) = MaxKeyLen
    /\ Len(last.done.args.key) = MaxKeyLen - 1

(***************************************************************************)
(* C16: the key store changes only by a store-key call that returns OK.    *)
(* Such a call adds exactly the decoded (identifier, key), under an        *)
(* identifier that was not registered; every other call leaves the store   *)
(* as it was; a registered identifier keeps its key for ever.              *)
(***************************************************************************)
C16_Step ==
    LET ok == StoreKeyCall(last') /\ ConvergedWith(last', 10000)
        id == last'.done.args.identifier
    IN /\ keys' # keys => ok
       /\ (Called(last') /\ ~ok) => keys' = keys
       /\ ok => /\ Carries(last'.input, id, last'.done.args.key)
                /\ id \notin DOMAIN keys
                /\ DOMAIN keys' = DOMAIN keys \cup {id}
                /\ keys'[id] = last'.done.args.key
       /\ \A i \in DOMAIN keys : i \in DOMAIN keys' /\ keys'[i] = keys[i]

C16_StoreChangesOnlyOnOk == [][C16_Step]_vars

C16_Witness ==
    /\ StoreKeyCall(last)
    /\ ConvergedWith(last, 10000)
    /\ Cardinality(DOMAIN keys) = 2
    /\ keys[last.done.args.identifier] = last.done.args.key

====
